---- MODULE Spec2Model ----
(***************************************************************************)
(* A model of the npipe package (Windows named pipes behind net.Listener   *)
(* and net.Conn): the listener's accept state machine and Close, the       *)
(* connection's Read/Write with deadlines, and Dial/DialTimeout.           *)
(*                                                                         *)
(* The Windows calls the package makes are modelled by what they return    *)
(* for the state of the kernel object they are given.  An overlapped       *)
(* operation is "pending" until the kernel decides its status              *)
(* ("completing"), and "done" once the status has been stored in the       *)
(* OVERLAPPED structure and the event has been signalled.                  *)
(***************************************************************************)
EXTENDS Integers, FiniteSets, Sequences, TLC

\* ------------------------------------------------------------------ bounds
MaxHandles == 2
MaxCloseCalls == 2

\* ------------------------------------------------------------------ errors
\* A Go error value: its dynamic type t, what it carries c, and the answer
\* of its Timeout() method (false for a type that has no such method).
Nil == [t |-> "nil", c |-> "", timeout |-> FALSE]
Errno(code) == [t |-> "Errno", c |-> code, timeout |-> FALSE]
\* fmt.Errorf("...: %s", err): a new error of fmt's own type that carries
\* only the text of err.  It is equal to no Errno and has no Timeout().
fmtErrorf(err) == [t |-> "fmt", c |-> err.c, timeout |-> FALSE]
\* fmt.Errorf of a text alone.
fmtError(msg) == [t |-> "fmt", c |-> msg, timeout |-> FALSE]
PipeError(msg, to) == [t |-> "PipeError", c |-> msg, timeout |-> to]
ErrClosed == PipeError("Pipe has been closed.", FALSE)
EOF == [t |-> "io", c |-> "EOF", timeout |-> FALSE]

\* ---------------------------------------------------------------- listener
Unlocked == 0
\* The threads: two call Accept/AcceptPipe, one calls Close.
Acceptors == {1, 2}
Closer == 3
Handles == 1..MaxHandles
NoHandle == 0
\* PipeListener.addr: NewPipeListener validated it, and nothing assigns it.
addr == "//./pipe/mypipe"

VARIABLES
    mu,                \* PipeListener.mu: Unlocked or the thread holding it
    closed,            \* PipeListener.closed
    handle,            \* PipeListener.handle, the pre-created instance
    acceptHandle,      \* PipeListener.acceptHandle
    acceptOverlapped,  \* PipeListener.acceptOverlapped: 0 (nil) or the
                       \* acceptor whose OVERLAPPED it points to
    pipes,             \* kernel: the pipe instance behind each handle value
    acc,               \* each AcceptPipe/Accept caller: its position, locals
    ev,                \* kernel: the event object of each caller's OVERLAPPED
    op,                \* kernel: each caller's overlapped connect
    cl,                \* the thread calling Close: position, result, calls
    returned,          \* handles wrapped by a connection handed to a caller
    releasedByClose,   \* handles Close passed to CloseHandle
    cancelledByClose,  \* handles Close passed to CancelIoEx with success
    handleResult       \* the thread calling Handle(): what it read, and
                       \* who held l.mu while it read

VARIABLES
    now,               \* the clock (time.Now())
    readDeadline,      \* PipeConn.readDeadline: NoDeadline (nil) or a time
    writeDeadline,     \* PipeConn.writeDeadline
    inAvail,           \* bytes the peer wrote that no read has taken
    outFree,           \* room left in the pipe's outgoing buffer
    peerClosed,        \* the peer closed its handle
    rw,                \* the caller of Read and the caller of Write
    io,                \* kernel: the overlapped read and write
    cev,               \* kernel: the event of each call's OVERLAPPED
    wt,                \* the goroutine completeRequest starts
    orphans,           \* goroutines of earlier calls, counted by where
                       \* they are: before their wait, in it, in a wait on
                       \* the event of a later call, in their send on done
    ioCalls,           \* Read and Write calls made so far
    connHandle,        \* PipeConn.handle
    connAddr,          \* PipeConn.addr
    connClose,         \* kernel: whether the handle behind PipeConn.handle
                       \* is open, and what the last Close() returned
    dialer,            \* the caller of Dial or DialTimeout
    pipeSt             \* the dialled name: no instance, one free, all busy

cvars == <<readDeadline, writeDeadline, inAvail, outFree, peerClosed, rw, io,
           cev, wt, orphans, ioCalls, connHandle, connAddr, connClose>>
dvars == <<dialer, pipeSt>>

lvars == <<mu, closed, handle, acceptHandle, acceptOverlapped, pipes, acc, ev,
           op, cl, returned, releasedByClose, cancelledByClose, handleResult>>

NoOp == [st |-> "none", status |-> "", h |-> NoHandle]
NoEvent == [st |-> "none", releases |-> 0]
IdleAcc == [pc |-> "idle", api |-> "", handle |-> NoHandle, err |-> Nil,
            conn |-> NoHandle, hevent |-> 0, noData |-> FALSE]

\* NewPipeListener: one instance is created eagerly and kept in l.handle.
NewPipeListener ==
    /\ mu = Unlocked
    /\ closed = FALSE
    /\ handle = 1
    /\ acceptHandle = NoHandle
    /\ acceptOverlapped = 0
    /\ pipes = [h \in Handles |->
                 [st |-> IF h = 1 THEN "open" ELSE "none", client |-> "none"]]
    /\ acc = [a \in Acceptors |-> IdleAcc]
    /\ ev = [a \in Acceptors |-> NoEvent]
    /\ op = [a \in Acceptors |-> NoOp]
    /\ cl = [pc |-> "idle", err |-> Nil, calls |-> 0]
    /\ returned = {}
    /\ releasedByClose = {}
    /\ cancelledByClose = {}
    /\ handleResult = [pc |-> "idle", value |-> NoHandle, mu |-> Unlocked]


\* ------------------------------------------------- the kernel, as called
\* CreateNamedPipe hands out the lowest handle value not yet used, or fails
\* (NoHandle); it can only fail once the handle values are used up.
CreateNamedPipe ==
    LET fresh == {h \in Handles : pipes[h].st = "none"}
    IN  {NoHandle} \cup
        (IF fresh = {} THEN {}
         ELSE {CHOOSE h \in fresh : \A g \in fresh : h <= g})

\* ConnectNamedPipe on an overlapped handle, by the state of the instance.
ConnectNamedPipe(p) ==
    IF p.st # "open" THEN Errno("ERROR_INVALID_HANDLE")
    ELSE IF p.client = "connected" THEN Errno("ERROR_PIPE_CONNECTED")
    ELSE IF p.client = "gone" THEN Errno("ERROR_NO_DATA")
    ELSE Errno("ERROR_IO_PENDING")

\* CloseHandle on an event: the handle is released (once more).
CloseEventMut(e) == e
CloseEvent(e) == [st |-> "closed", releases |-> e.releases + 1]

\* waitForCompletion: WaitForSingleObject, then GetOverlappedResult.  A
\* failure of either is returned inside a fmt.Errorf.
waitForCompletion(waitOk, status) ==
    IF ~waitOk THEN fmtErrorf(Errno("ERROR_INVALID_HANDLE"))
    ELSE IF status = "SUCCESS" THEN Nil
    ELSE fmtErrorf(Errno(status))

\* ------------------------------------------------------------- AcceptPipe
\* The tail of AcceptPipe: what it returns for the error it ended with.
AcceptResult(h, err) ==
    IF err = Errno("ERROR_OPERATION_ABORTED")
    THEN [conn |-> NoHandle, err |-> ErrClosed]
    ELSE IF err # Nil THEN [conn |-> NoHandle, err |-> err]
    ELSE [conn |-> h, err |-> Nil]

\* Accept's loop condition.
AcceptRetryMut(err) == FALSE
AcceptRetry(err) == err = Errno("ERROR_NO_DATA")

\* The value of l.mu once AcceptPipe has recorded its pending connect.
muBeforeWaitMut(a) == a
muBeforeWait(a) == Unlocked

\* A caller enters Accept or AcceptPipe.
AcceptCall(a) ==
    /\ acc[a].pc \in {"idle", "done"}
    /\ \E api \in {"Accept", "AcceptPipe"} :
         acc' = [acc EXCEPT ![a] = [IdleAcc EXCEPT !.pc = "lock", !.api = api]]
    /\ ev' = [ev EXCEPT ![a] = NoEvent]
    /\ op' = [op EXCEPT ![a] = NoOp]
    /\ UNCHANGED <<mu, closed, handle, acceptHandle, acceptOverlapped, pipes,
                   cl, returned, releasedByClose, cancelledByClose>>
    /\ UNCHANGED <<now, cvars, dvars, handleResult>>

\* AcceptPipe's test under the lock: fail fast without an address or once
\* the listener is closed.
AcceptRefusedMut == FALSE
AcceptRefused == addr = "" \/ closed

\* l.mu.Lock() and the closed check.
AP_Lock(a) ==
    /\ acc[a].pc = "lock"
    /\ mu = Unlocked
    /\ IF AcceptRefused
       THEN /\ acc' = [acc EXCEPT ![a].pc = "ret",
                                  ![a].err = fmtError("the address is empty or the listener is closed")]
            /\ mu' = Unlocked
       ELSE /\ acc' = [acc EXCEPT ![a].pc = "take"]
            /\ mu' = a
    /\ UNCHANGED <<closed, handle, acceptHandle, acceptOverlapped, pipes, ev,
                   op, cl, returned, releasedByClose, cancelledByClose>>
    /\ UNCHANGED <<now, cvars, dvars, handleResult>>

\* l.handle once a call has read it: a handle found there is taken out
\* (l.handle = 0), and an empty l.handle stays empty.
handleAfterTakeMut == handle
handleAfterTake == NoHandle

\* Take l.handle or create a new instance; then newOverlapped.
AP_Take(a) ==
    /\ acc[a].pc = "take"
    /\ \E h \in (IF handle # NoHandle THEN {handle} ELSE CreateNamedPipe),
          evOk \in BOOLEAN :
         IF h = NoHandle
         THEN /\ acc' = [acc EXCEPT ![a].pc = "ret",
                                    ![a].err = Errno("ERROR_ACCESS_DENIED")]
              /\ mu' = Unlocked
              /\ UNCHANGED <<handle, pipes, ev>>
         ELSE /\ handle' = handleAfterTake
              /\ pipes' = [pipes EXCEPT ![h].st = "open"]
              /\ IF evOk
                 THEN /\ ev' = [ev EXCEPT ![a] = [st |-> "open", releases |-> 0]]
                      /\ acc' = [acc EXCEPT ![a].pc = "connect",
                                            ![a].handle = h,
                                            ![a].hevent = a]
                      /\ mu' = mu
                 ELSE /\ acc' = [acc EXCEPT
                                   ![a].pc = "ret",
                                   ![a].handle = h,
                                   ![a].err = fmtErrorf(Errno("ERROR_NO_SYSTEM_RESOURCES"))]
                      /\ mu' = Unlocked
                      /\ ev' = ev
    /\ UNCHANGED <<closed, acceptHandle, acceptOverlapped, op, cl, returned,
                   releasedByClose, cancelledByClose>>
    /\ UNCHANGED <<now, cvars, dvars, handleResult>>

\* ConnectNamedPipe.  An immediate outcome returns (the deferred CloseHandle
\* of the event and Unlock run); a pending one is recorded, and the mutex is
\* released for the wait.
AP_Connect(a) ==
    /\ acc[a].pc = "connect"
    /\ LET h == acc[a].handle
           err == ConnectNamedPipe(pipes[h])
       IN IF err \in {Errno("ERROR_IO_INCOMPLETE"), Errno("ERROR_IO_PENDING")}
          THEN /\ acceptOverlapped' = a
               /\ acceptHandle' = h
               /\ mu' = muBeforeWait(a)
               /\ op' = [op EXCEPT ![a] = [st |-> "pending", status |-> "", h |-> h]]
               /\ acc' = [acc EXCEPT ![a].pc = "prewait", ![a].err = err]
               /\ UNCHANGED <<ev, returned>>
          ELSE LET r == IF err = Errno("ERROR_PIPE_CONNECTED")
                        THEN [conn |-> h, err |-> Nil]
                        ELSE AcceptResult(h, err)
               IN /\ acc' = [acc EXCEPT ![a].pc = "ret", ![a].err = r.err,
                                        ![a].conn = r.conn]
                  /\ returned' = returned \cup (IF r.conn = NoHandle THEN {} ELSE {r.conn})
                  /\ ev' = [ev EXCEPT ![a] = CloseEvent(ev[a])]
                  /\ mu' = Unlocked
                  /\ UNCHANGED <<acceptOverlapped, acceptHandle, op>>
    /\ UNCHANGED <<closed, handle, pipes, cl, releasedByClose, cancelledByClose>>
    /\ UNCHANGED <<now, cvars, dvars, handleResult>>

\* waitForCompletion reaches WaitForSingleObject(overlapped.HEvent): the wait
\* starts on the event, or fails at once when Close has released it.
AP_WaitBegin(a) ==
    /\ acc[a].pc = "prewait"
    /\ IF ev[a].st = "open"
       THEN acc' = [acc EXCEPT ![a].pc = "waiting"]
       ELSE acc' = [acc EXCEPT ![a].pc = "relock",
                               ![a].err = waitForCompletion(FALSE, "")]
    /\ UNCHANGED <<mu, closed, handle, acceptHandle, acceptOverlapped, pipes,
                   ev, op, cl, returned, releasedByClose, cancelledByClose>>
    /\ UNCHANGED <<now, cvars, dvars, handleResult>>

\* The wait ends: the event was signalled by the completion, or the event
\* was released under the waiter and the wait fails.
AP_WaitEnd(a) ==
    /\ acc[a].pc = "waiting"
    /\ \E waitOk \in {b \in BOOLEAN : \/ b /\ op[a].st = "done"
                                      \/ ~b /\ ev[a].st = "closed"} :
         acc' = [acc EXCEPT ![a].pc = "relock",
                            ![a].err = waitForCompletion(waitOk, op[a].status)]
    /\ UNCHANGED <<mu, closed, handle, acceptHandle, acceptOverlapped, pipes,
                   ev, op, cl, returned, releasedByClose, cancelledByClose>>
    /\ UNCHANGED <<now, cvars, dvars, handleResult>>

\* The deferred function re-locks and clears the record; AcceptPipe's result
\* is what lines 171-179 computed; the deferred CloseHandle(event) and
\* Unlock follow.
AP_Relock(a) ==
    /\ acc[a].pc = "relock"
    /\ mu = Unlocked
    /\ acceptOverlapped' = 0
    /\ acceptHandle' = NoHandle
    /\ LET r == AcceptResult(acc[a].handle, acc[a].err)
       IN /\ acc' = [acc EXCEPT ![a].pc = "ret", ![a].err = r.err,
                                ![a].conn = r.conn]
          /\ returned' = returned \cup (IF r.conn = NoHandle THEN {} ELSE {r.conn})
    /\ ev' = [ev EXCEPT ![a] = CloseEvent(ev[a])]
    /\ mu' = Unlocked
    /\ UNCHANGED <<closed, handle, pipes, op, cl, releasedByClose,
                   cancelledByClose>>
    /\ UNCHANGED <<now, cvars, dvars, handleResult>>

\* AcceptPipe has returned: Accept calls it again while the error is
\* ERROR_NO_DATA; otherwise the caller has its result.
AP_Return(a) ==
    /\ acc[a].pc = "ret"
    /\ IF acc[a].api = "Accept" /\ AcceptRetry(acc[a].err)
       THEN /\ acc' = [acc EXCEPT ![a] = [IdleAcc EXCEPT !.pc = "lock",
                                                         !.api = "Accept",
                                                         !.noData = TRUE]]
            /\ ev' = [ev EXCEPT ![a] = NoEvent]
            /\ op' = [op EXCEPT ![a] = NoOp]
       ELSE /\ acc' = [acc EXCEPT ![a].pc = "done"]
            /\ UNCHANGED <<ev, op>>
    /\ UNCHANGED <<mu, closed, handle, acceptHandle, acceptOverlapped, pipes,
                   cl, returned, releasedByClose, cancelledByClose>>
    /\ UNCHANGED <<now, cvars, dvars, handleResult>>


\* ------------------------------------------------------------------ Close
\* Close's first test: a listener already closed is left as it is.
CloseIsNoopMut == FALSE
CloseIsNoop == closed

\* CancelIoEx(acceptHandle, acceptOverlapped), by the state of the connect:
\* a pending one is cancelled; one whose status the kernel has decided but
\* not delivered is still found, or not; one delivered is not found.
CancelIoEx(o) ==
    CASE o.st = "pending" -> {Nil}
      [] o.st = "completing" -> {Nil, Errno("ERROR_NOT_FOUND")}
      [] OTHER -> {Errno("ERROR_NOT_FOUND")}

\* A thread calls Close.
CloseCall ==
    /\ cl.pc \in {"idle", "done"}
    /\ cl.calls < MaxCloseCalls
    /\ cl' = [pc |-> "lock", err |-> Nil, calls |-> cl.calls + 1]
    /\ UNCHANGED <<mu, closed, handle, acceptHandle, acceptOverlapped, pipes,
                   acc, ev, op, returned, releasedByClose, cancelledByClose>>
    /\ UNCHANGED <<now, cvars, dvars, handleResult>>

\* l.mu.Lock(); if l.closed, return nil; l.closed = true.
Close_Lock ==
    /\ cl.pc = "lock"
    /\ mu = Unlocked
    /\ IF CloseIsNoop
       THEN /\ cl' = [cl EXCEPT !.pc = "done", !.err = Nil]
            /\ UNCHANGED <<mu, closed>>
       ELSE /\ cl' = [cl EXCEPT !.pc = "handle"]
            /\ mu' = Closer
            /\ closed' = TRUE
    /\ UNCHANGED <<handle, acceptHandle, acceptOverlapped, pipes, acc, ev, op,
                   returned, releasedByClose, cancelledByClose>>
    /\ UNCHANGED <<now, cvars, dvars, handleResult>>

\* The pre-created instance, if still there, is disconnected and released.
Close_Handle ==
    /\ cl.pc = "handle"
    /\ IF handle # NoHandle
       THEN \E disconnected \in BOOLEAN :
              IF disconnected
              THEN /\ pipes' = [pipes EXCEPT ![handle].st = "closed"]
                   /\ releasedByClose' = releasedByClose \cup {handle}
                   /\ handle' = NoHandle
                   /\ cl' = [cl EXCEPT !.pc = "cancel"]
                   /\ mu' = mu
              ELSE /\ cl' = [cl EXCEPT !.pc = "done",
                                       !.err = fmtErrorf(Errno("ERROR_PIPE_NOT_CONNECTED"))]
                   /\ mu' = Unlocked
                   /\ UNCHANGED <<pipes, releasedByClose, handle>>
       ELSE /\ cl' = [cl EXCEPT !.pc = "cancel"]
            /\ UNCHANGED <<pipes, releasedByClose, handle, mu>>
    /\ UNCHANGED <<closed, acceptHandle, acceptOverlapped, acc, ev, op,
                   returned, cancelledByClose>>
    /\ UNCHANGED <<now, cvars, dvars, handleResult>>

\* The outstanding accept, if one is recorded, is cancelled.
Close_Cancel ==
    /\ cl.pc = "cancel"
    /\ IF acceptOverlapped # 0 /\ acceptHandle # NoHandle
       THEN \E err \in CancelIoEx(op[acceptOverlapped]) :
              IF err = Nil
              THEN /\ op' = [op EXCEPT ![acceptOverlapped] =
                               IF @.st = "pending"
                               THEN [@ EXCEPT !.st = "completing",
                                              !.status = "ERROR_OPERATION_ABORTED"]
                               ELSE @]
                   /\ cancelledByClose' = cancelledByClose \cup {acceptHandle}
                   /\ cl' = [cl EXCEPT !.pc = "closeEvent"]
                   /\ mu' = mu
              ELSE /\ cl' = [cl EXCEPT !.pc = "done", !.err = err]
                   /\ mu' = Unlocked
                   /\ UNCHANGED <<op, cancelledByClose>>
       ELSE /\ cl' = [cl EXCEPT !.pc = "done", !.err = Nil]
            /\ mu' = Unlocked
            /\ UNCHANGED <<op, cancelledByClose>>
    /\ UNCHANGED <<closed, handle, acceptHandle, acceptOverlapped, pipes, acc,
                   ev, returned, releasedByClose>>
    /\ UNCHANGED <<now, cvars, dvars, handleResult>>

\* CloseHandle(l.acceptOverlapped.HEvent); l.acceptOverlapped.HEvent = 0.
Close_Event ==
    /\ cl.pc = "closeEvent"
    /\ ev' = [ev EXCEPT ![acceptOverlapped] = CloseEvent(@)]
    /\ acc' = [acc EXCEPT ![acceptOverlapped].hevent = 0]
    /\ cl' = [cl EXCEPT !.pc = "closeHandle"]
    /\ UNCHANGED <<mu, closed, handle, acceptHandle, acceptOverlapped, pipes,
                   op, returned, releasedByClose, cancelledByClose>>
    /\ UNCHANGED <<now, cvars, dvars, handleResult>>

\* CloseHandle(l.acceptHandle); l.acceptHandle = 0; return nil.
Close_AcceptHandle ==
    /\ cl.pc = "closeHandle"
    /\ pipes' = [pipes EXCEPT ![acceptHandle].st = "closed"]
    /\ releasedByClose' = releasedByClose \cup {acceptHandle}
    /\ acceptHandle' = NoHandle
    /\ cl' = [cl EXCEPT !.pc = "done", !.err = Nil]
    /\ mu' = Unlocked
    /\ UNCHANGED <<closed, handle, acceptOverlapped, acc, ev, op, returned,
                   cancelledByClose>>
    /\ UNCHANGED <<now, cvars, dvars, handleResult>>

\* ------------------------------------------------ the kernel and the peers
\* The instances a connect has been or can still be issued on: the
\* pre-created one, and the one a caller in AcceptPipe holds.
Awaited(h) ==
    \/ h = handle
    \/ \E a \in Acceptors :
         acc[a].handle = h /\ acc[a].pc \in {"connect", "prewait", "waiting"}

\* A client opens the instance behind h.  A connect pending on it completes
\* with success.
ClientConnect(h) ==
    /\ Awaited(h)
    /\ pipes[h].st = "open"
    /\ pipes[h].client = "none"
    /\ \A a \in Acceptors : op[a].h = h => op[a].st = "pending"
    /\ pipes' = [pipes EXCEPT ![h].client = "connected"]
    /\ op' = [a \in Acceptors |->
                IF op[a].h = h
                THEN [op[a] EXCEPT !.st = "completing", !.status = "SUCCESS"]
                ELSE op[a]]
    /\ UNCHANGED <<mu, closed, handle, acceptHandle, acceptOverlapped, acc, ev,
                   cl, returned, releasedByClose, cancelledByClose>>
    /\ UNCHANGED <<now, cvars, dvars, handleResult>>

\* A client that connected before the server's ConnectNamedPipe closes its
\* end again.
ClientDisconnect(h) ==
    /\ Awaited(h)
    /\ pipes[h].st = "open"
    /\ pipes[h].client = "connected"
    /\ h \notin returned
    /\ \A a \in Acceptors : op[a].h # h
    /\ pipes' = [pipes EXCEPT ![h].client = "gone"]
    /\ UNCHANGED <<mu, closed, handle, acceptHandle, acceptOverlapped, acc, ev,
                   op, cl, returned, releasedByClose, cancelledByClose>>
    /\ UNCHANGED <<now, cvars, dvars, handleResult>>

\* The kernel delivers a decided completion: the status is stored in the
\* OVERLAPPED and the event is signalled.
Deliver(a) ==
    /\ op[a].st = "completing"
    /\ op' = [op EXCEPT ![a].st = "done"]
    /\ UNCHANGED <<mu, closed, handle, acceptHandle, acceptOverlapped, pipes,
                   acc, ev, cl, returned, releasedByClose, cancelledByClose>>
    /\ UNCHANGED <<now, cvars, dvars, handleResult>>

\* ----------------------------------------------------------------- Handle
\* The thread that calls Handle().
Reader == 4

\* Handle(): return l.handle.  The method takes no lock.
Handle ==
    /\ handleResult.pc = "idle"
    /\ handleResult' = [pc |-> "done", value |-> handle, mu |-> mu]
    /\ UNCHANGED <<mu, closed, handle, acceptHandle, acceptOverlapped, pipes,
                   acc, ev, op, cl, returned, releasedByClose, cancelledByClose>>
    /\ UNCHANGED <<now, cvars, dvars>>

AcceptStep(a) ==
    \/ AcceptCall(a)
    \/ AP_Lock(a)
    \/ AP_Take(a)
    \/ AP_Connect(a)
    \/ AP_WaitBegin(a)
    \/ AP_WaitEnd(a)
    \/ AP_Relock(a)
    \/ AP_Return(a)

CloseStep ==
    \/ CloseCall
    \/ Close_Lock
    \/ Close_Handle
    \/ Close_Cancel
    \/ Close_Event
    \/ Close_AcceptHandle

ListenerNext ==
    \/ \E a \in Acceptors : AcceptStep(a)
    \/ CloseStep
    \/ \E h \in Handles : ClientConnect(h)
    \/ \E h \in Handles : ClientDisconnect(h)
    \/ \E a \in Acceptors : Deliver(a)

\* -------------------------------------------------------------- PipeConn
MaxTime == 2
MaxBytes == 1
MaxIOCalls == 2

Dirs == {"read", "write"}
Other(d) == CHOOSE e \in Dirs : e # d
\* A nil *time.Time, the zero time.Time{}, and a nil timer channel.
NoDeadline == -1
ZeroTime == 0
NoTimer == -1

NoIO == [st |-> "none", status |-> "", n |-> 0]
IdleRW == [pc |-> "idle", len |-> 0, n |-> 0, err |-> Nil, dl |-> NoDeadline,
           callTime |-> 0, via |-> "", status |-> ""]
\* alias: the event of its call was released before it waited, and an event
\* was created since, which may have been given the released handle value.
NoWaiter == [pc |-> "none", n |-> 0, err |-> Nil, alias |-> FALSE]
NoOrphans == [start |-> 0, waiting |-> 0, blocked |-> 0, sending |-> 0]

\* A connection accepted or dialled: no deadline set, nothing in its buffers.
PipeConnWith(free) ==
    /\ now = 1
    /\ readDeadline = NoDeadline
    /\ writeDeadline = NoDeadline
    /\ inAvail = 0
    /\ outFree = free
    /\ peerClosed = FALSE
    /\ rw = [d \in Dirs |-> IdleRW]
    /\ io = [d \in Dirs |-> NoIO]
    /\ cev = [d \in Dirs |-> NoEvent]
    /\ wt = [d \in Dirs |-> NoWaiter]
    /\ orphans = NoOrphans
    /\ ioCalls = 0
    /\ connHandle = 1
    /\ connAddr = addr
    /\ connClose = [st |-> "open", err |-> Nil]

NewPipeConn == PipeConnWith(MaxBytes)
\* A connection in use for a while: earlier writes may still fill its
\* outgoing buffer.
UsedPipeConn == \E free \in 0..MaxBytes : PipeConnWith(free)

Min(x, y) == IF x <= y THEN x ELSE y

\* timeout(addr): the PipeError a call that timed out returns.
timeout(a) == PipeError("Pipe IO timed out", TRUE)

\* ReadFile on the overlapped handle: a handle that Close released is
\* refused; bytes already in the pipe are returned at once; an empty pipe
\* whose peer is gone is broken; otherwise pending.
ReadFile(len) ==
    IF connClose.st = "closed"
    THEN [n |-> 0, err |-> Errno("ERROR_INVALID_HANDLE")]
    ELSE IF inAvail > 0 THEN [n |-> Min(len, inAvail), err |-> Nil]
    ELSE IF peerClosed THEN [n |-> 0, err |-> Errno("ERROR_BROKEN_PIPE")]
    ELSE [n |-> 0, err |-> Errno("ERROR_IO_PENDING")]

\* WriteFile: the bytes are taken when the buffer has room for them.
WriteFile(len) ==
    IF connClose.st = "closed"
    THEN [n |-> 0, err |-> Errno("ERROR_INVALID_HANDLE")]
    ELSE IF peerClosed THEN [n |-> 0, err |-> Errno("ERROR_NO_DATA")]
    ELSE IF outFree >= len THEN [n |-> len, err |-> Nil]
    ELSE [n |-> 0, err |-> Errno("ERROR_IO_PENDING")]

\* completeRequest's timer: armed only for a deadline still ahead.  The
\* value is the time it fires at.
armTimerMut(deadline, t) ==
    IF deadline # NoDeadline THEN (IF deadline > t THEN deadline ELSE t)
    ELSE NoTimer
armTimer(deadline, t) ==
    IF deadline # NoDeadline /\ deadline - t > 0 THEN deadline ELSE NoTimer

\* completeRequest's tail: ERROR_BROKEN_PIPE becomes io.EOF.
brokenPipeToEOF(data) ==
    IF data.err = Errno("ERROR_BROKEN_PIPE") THEN [data EXCEPT !.err = EOF]
    ELSE data

\* One caller uses the connection: it makes its calls one after the other,
\* each a Read or a Write, and sets a deadline only between them.  It does
\* not wait for the goroutine of a call that has returned.
CanCall ==
    /\ ioCalls < MaxIOCalls
    /\ \A d \in Dirs : rw[d].pc \in {"idle", "done"}

\* Read(b) or Write(b): newOverlapped, ReadFile/WriteFile, and
\* completeRequest up to its select.  A request that is not pending is
\* returned as it is (the deferred CloseHandle releases the event); for a
\* pending one the timer is armed and the goroutine that waits for the
\* completion is started.  What is kept of the calls before it is only the
\* goroutines they left behind: a goroutine that waited on the event of the
\* call before this one waits on a released event now.  A goroutine of a
\* concurrent call that has still to wait on its released event may find
\* the handle value given to the event created here.
Left(e, solo, d) == solo \/ e = d
Leaves(pc, solo, d) ==
    Cardinality({e \in Dirs : Left(e, solo, d) /\ wt[e].pc = pc})
IO_Issue(d, solo) ==
    /\ ioCalls' = ioCalls + 1
    /\ orphans' =
         [start |-> orphans.start + Leaves("start", solo, d),
          waiting |-> IF solo
                      THEN orphans.waiting + orphans.blocked
                             + Leaves("waiting", solo, d)
                      ELSE orphans.waiting + Leaves("waiting", solo, d),
          blocked |-> IF solo THEN 0 ELSE orphans.blocked,
          sending |-> orphans.sending + Leaves("sending", solo, d)]
    /\ \E len \in (IF solo THEN 1..MaxBytes ELSE {MaxBytes}),
          evOk \in BOOLEAN :
         LET data == IF d = "read" THEN ReadFile(len) ELSE WriteFile(len)
             deadline == IF d = "read" THEN readDeadline ELSE writeDeadline
             call == [IdleRW EXCEPT !.len = len, !.callTime = now]
             only(x, none, cur) ==
                 [e \in Dirs |-> IF e = d THEN x
                                 ELSE IF solo THEN none ELSE cur[e]]
             dangling(e) == wt[e].pc = "start" /\ cev[e].st = "closed"
             aliased == [e \in Dirs |-> IF dangling(e)
                                        THEN [wt[e] EXCEPT !.alias = TRUE]
                                        ELSE wt[e]]
         IN IF ~evOk
            THEN /\ rw' = only([call EXCEPT !.pc = "done", !.via = "failed",
                                  !.err = fmtErrorf(Errno("ERROR_NO_SYSTEM_RESOURCES"))],
                               IdleRW, rw)
                 /\ cev' = only(NoEvent, NoEvent, cev)
                 /\ io' = only(NoIO, NoIO, io)
                 /\ wt' = only(NoWaiter, NoWaiter, wt)
                 /\ UNCHANGED <<inAvail, outFree>>
            ELSE IF data.err \in {Errno("ERROR_IO_INCOMPLETE"), Errno("ERROR_IO_PENDING")}
            THEN /\ rw' = only([call EXCEPT !.pc = "select", !.dl = deadline],
                               IdleRW, rw)
                 /\ cev' = only([st |-> "open", releases |-> 0], NoEvent, cev)
                 /\ io' = only([st |-> "pending", status |-> "", n |-> 0], NoIO, io)
                 /\ wt' = only([NoWaiter EXCEPT !.pc = "start"], NoWaiter,
                                aliased)
                 /\ UNCHANGED <<inAvail, outFree>>
            ELSE /\ rw' = only([call EXCEPT !.pc = "done", !.dl = deadline,
                                            !.via = "issue",
                                            !.status = data.err.c,
                                            !.n = brokenPipeToEOF(data).n,
                                            !.err = brokenPipeToEOF(data).err],
                               IdleRW, rw)
                 /\ cev' = only([st |-> "closed", releases |-> 1], NoEvent, cev)
                 /\ io' = only(NoIO, NoIO, io)
                 /\ wt' = only(NoWaiter, NoWaiter, aliased)
                 /\ inAvail' = IF d = "read" THEN inAvail - data.n ELSE inAvail
                 /\ outFree' = IF d = "write" THEN outFree - data.n ELSE outFree
    /\ UNCHANGED <<now, readDeadline, writeDeadline, peerClosed>>
    /\ UNCHANGED <<connHandle, connAddr, connClose>>
    /\ UNCHANGED <<lvars, dvars>>

\* A call by the connection's one caller.
IO_Call(d) ==
    /\ CanCall
    /\ IO_Issue(d, TRUE)

\* Read and Write called from two goroutines, one call each with a buffer
\* of MaxBytes: a call in one direction does not wait for the call in flight
\* in the other.
CanCallDuplex(d) == rw[d].pc = "idle"
IO_CallDuplex(d) ==
    /\ CanCallDuplex(d)
    /\ IO_Issue(d, FALSE)

\* The goroutine reaches WaitForSingleObject(overlapped.HEvent).  On a
\* handle value that was released the wait fails, or, when the value has
\* been given to the event of the call in flight in the other direction, it
\* blocks on that event.
W_Begin(d) ==
    /\ wt[d].pc = "start"
    /\ IF cev[d].st = "open"
       THEN wt' = [wt EXCEPT ![d].pc = "waiting"]
       ELSE \/ wt' = [wt EXCEPT ![d].pc = "sending",
                                ![d].err = waitForCompletion(FALSE, "")]
            \/ /\ wt[d].alias
               /\ cev[Other(d)].st = "open"
               /\ wt' = [wt EXCEPT ![d].pc = "blocked"]
    /\ UNCHANGED <<now, readDeadline, writeDeadline, inAvail, outFree,
                   peerClosed, rw, io, cev, orphans, ioCalls>>
    /\ UNCHANGED <<connHandle, connAddr, connClose>>
    /\ UNCHANGED <<lvars, dvars>>

\* Its wait ends, GetOverlappedResult gives the outcome, and it offers the
\* outcome on the unbuffered channel done.
W_End(d) ==
    /\ wt[d].pc \in {"waiting", "blocked"}
    /\ \E waitOk \in {b \in BOOLEAN :
                        LET e == IF wt[d].pc = "blocked" THEN Other(d) ELSE d
                        IN \/ b /\ io[e].st = "done"
                           \/ ~b /\ cev[e].st = "closed"} :
         wt' = [wt EXCEPT ![d].pc = "sending",
                          ![d].n = IF waitOk /\ io[d].status = "SUCCESS"
                                   THEN io[d].n ELSE 0,
                          ![d].err = waitForCompletion(waitOk, io[d].status)]
    /\ UNCHANGED <<now, readDeadline, writeDeadline, inAvail, outFree,
                   peerClosed, rw, io, cev, orphans, ioCalls>>
    /\ UNCHANGED <<connHandle, connAddr, connClose>>
    /\ UNCHANGED <<lvars, dvars>>

\* select: case data = <-done.  The call returns; the deferred CloseHandle
\* releases the event.
IO_Done(d) ==
    /\ rw[d].pc = "select"
    /\ wt[d].pc = "sending"
    /\ LET data == brokenPipeToEOF([n |-> wt[d].n, err |-> wt[d].err])
       IN rw' = [rw EXCEPT ![d].pc = "done", ![d].via = "done",
                           ![d].status = io[d].status,
                           ![d].n = data.n, ![d].err = data.err]
    /\ wt' = [wt EXCEPT ![d].pc = "exited"]
    /\ cev' = [cev EXCEPT ![d] = CloseEvent(@)]
    /\ UNCHANGED <<now, readDeadline, writeDeadline, inAvail, outFree,
                   peerClosed, io, orphans, ioCalls>>
    /\ UNCHANGED <<connHandle, connAddr, connClose>>
    /\ UNCHANGED <<lvars, dvars>>

\* select: case <-timer.  A nil timer never delivers.
IO_Timer(d) ==
    /\ rw[d].pc = "select"
    /\ armTimer(rw[d].dl, rw[d].callTime) # NoTimer
    /\ now >= armTimer(rw[d].dl, rw[d].callTime)
    /\ rw' = [rw EXCEPT ![d].pc = "cancel"]
    /\ UNCHANGED <<now, readDeadline, writeDeadline, inAvail, outFree,
                   peerClosed, io, cev, wt, orphans, ioCalls>>
    /\ UNCHANGED <<connHandle, connAddr, connClose>>
    /\ UNCHANGED <<lvars, dvars>>

\* CancelIoEx(c.handle, overlapped) on the connection: the request behind
\* that OVERLAPPED is cancelled if still pending, and no other request.
Aborted(o) ==
    IF o.st = "pending"
    THEN [o EXCEPT !.st = "done", !.status = "ERROR_OPERATION_ABORTED"]
    ELSE o
CancelOverlappedMut(d) == [e \in Dirs |-> Aborted(io[e])]
CancelOverlapped(d) == [io EXCEPT ![d] = Aborted(@)]

\* CancelIoEx(c.handle, overlapped), its result dropped; the call returns
\* timeout(addr); the deferred CloseHandle releases the event.
IO_Cancel(d) ==
    /\ rw[d].pc = "cancel"
    /\ io' = CancelOverlapped(d)
    /\ LET data == brokenPipeToEOF([n |-> 0, err |-> timeout(addr)])
       IN rw' = [rw EXCEPT ![d].pc = "done", ![d].via = "timer",
                           ![d].n = data.n, ![d].err = data.err]
    /\ cev' = [cev EXCEPT ![d] = CloseEvent(@)]
    /\ UNCHANGED <<now, readDeadline, writeDeadline, inAvail, outFree,
                   peerClosed, wt, orphans, ioCalls>>
    /\ UNCHANGED <<connHandle, connAddr, connClose>>
    /\ UNCHANGED <<lvars, dvars>>

\* A goroutine of an earlier call reaches WaitForSingleObject on the handle
\* value its call released: the wait fails, or, the value having been given
\* to the event of the call now in flight, it blocks on that event.
O_Begin ==
    /\ orphans.start > 0
    /\ \/ orphans' = [orphans EXCEPT !.start = @ - 1, !.sending = @ + 1]
       \/ /\ \E d \in Dirs : cev[d].st = "open"
          /\ orphans' = [orphans EXCEPT !.start = @ - 1, !.blocked = @ + 1]
    /\ UNCHANGED <<now, readDeadline, writeDeadline, inAvail, outFree,
                   peerClosed, rw, io, cev, wt, ioCalls>>
    /\ UNCHANGED <<connHandle, connAddr, connClose>>
    /\ UNCHANGED <<lvars, dvars>>

\* The wait of a goroutine of an earlier call ends, on its own event, which
\* was signalled or released when its call returned, or on the event of the
\* call in flight once that is signalled or released; GetOverlappedResult
\* follows and the goroutine blocks in its send on done.
O_End ==
    /\ \/ /\ orphans.waiting > 0
          /\ orphans' = [orphans EXCEPT !.waiting = @ - 1, !.sending = @ + 1]
       \/ /\ orphans.blocked > 0
          /\ \A d \in Dirs : cev[d].st = "open" => io[d].st = "done"
          /\ orphans' = [orphans EXCEPT !.blocked = @ - 1, !.sending = @ + 1]
    /\ UNCHANGED <<now, readDeadline, writeDeadline, inAvail, outFree,
                   peerClosed, rw, io, cev, wt, ioCalls>>
    /\ UNCHANGED <<connHandle, connAddr, connClose>>
    /\ UNCHANGED <<lvars, dvars>>

\* SetReadDeadline(t), SetWriteDeadline(t), SetDeadline(t): &t is stored.
\* They are called between the operations of the direction they set.
SetReadDeadline(t) ==
    /\ CanCall
    /\ readDeadline' = t
    /\ UNCHANGED <<now, writeDeadline, inAvail, outFree, peerClosed, rw, io,
                   cev, wt, orphans, ioCalls>>
    /\ UNCHANGED <<connHandle, connAddr, connClose>>
    /\ UNCHANGED <<lvars, dvars>>

SetWriteDeadlineMut(t) ==
    /\ CanCall
    /\ writeDeadline' = t
    /\ readDeadline' = t
    /\ UNCHANGED <<now, inAvail, outFree, peerClosed, rw, io, cev, wt, orphans,
                   ioCalls, connHandle, connAddr, connClose>>
    /\ UNCHANGED <<lvars, dvars>>
SetWriteDeadline(t) ==
    /\ CanCall
    /\ writeDeadline' = t
    /\ UNCHANGED <<now, readDeadline, inAvail, outFree, peerClosed, rw, io,
                   cev, wt, orphans, ioCalls>>
    /\ UNCHANGED <<connHandle, connAddr, connClose>>
    /\ UNCHANGED <<lvars, dvars>>

SetDeadline(t) ==
    /\ CanCall
    /\ readDeadline' = t
    /\ writeDeadline' = t
    /\ UNCHANGED <<now, inAvail, outFree, peerClosed, rw, io, cev, wt, orphans, ioCalls>>
    /\ UNCHANGED <<connHandle, connAddr, connClose>>
    /\ UNCHANGED <<lvars, dvars>>

\* A call is in progress or can still be made, or a goroutine still waits:
\* what the peer does and the passing of time are followed for that long.
ConnRuns ==
    \/ ioCalls < MaxIOCalls
    \/ \E d \in Dirs : rw[d].pc \in {"select", "cancel"}
    \/ \E d \in Dirs : wt[d].pc \in {"start", "waiting"}

\* The peer writes a byte: a pending read takes it; otherwise it stays in
\* the pipe.
PeerWrite ==
    /\ ConnRuns
    /\ ~peerClosed
    /\ connClose.st = "open"
    /\ inAvail < MaxBytes
    /\ IF io["read"].st = "pending"
       THEN /\ io' = [io EXCEPT !["read"] =
                        [st |-> "done", status |-> "SUCCESS", n |-> 1]]
            /\ UNCHANGED inAvail
       ELSE /\ inAvail' = inAvail + 1
            /\ UNCHANGED io
    /\ UNCHANGED <<now, readDeadline, writeDeadline, outFree, peerClosed, rw,
                   cev, wt, orphans, ioCalls>>
    /\ UNCHANGED <<connHandle, connAddr, connClose>>
    /\ UNCHANGED <<lvars, dvars>>

\* The peer reads a byte: a pending write that now fits is taken.
PeerRead ==
    /\ ConnRuns
    /\ ~peerClosed
    /\ connClose.st = "open"
    /\ outFree < MaxBytes
    /\ IF io["write"].st = "pending" /\ outFree + 1 >= rw["write"].len
       THEN /\ io' = [io EXCEPT !["write"] =
                        [st |-> "done", status |-> "SUCCESS",
                         n |-> rw["write"].len]]
            /\ outFree' = outFree + 1 - rw["write"].len
       ELSE /\ outFree' = outFree + 1
            /\ UNCHANGED io
    /\ UNCHANGED <<now, readDeadline, writeDeadline, inAvail, peerClosed, rw,
                   cev, wt, orphans, ioCalls>>
    /\ UNCHANGED <<connHandle, connAddr, connClose>>
    /\ UNCHANGED <<lvars, dvars>>

\* The peer closes its handle: a read pending on the empty pipe ends with
\* ERROR_BROKEN_PIPE, a pending write with ERROR_NO_DATA.  Once the
\* connection's own handle is released the peer no longer shows through it.
PeerClose ==
    /\ ConnRuns
    /\ ~peerClosed
    /\ connClose.st = "open"
    /\ peerClosed' = TRUE
    /\ io' = [d \in Dirs |->
                IF io[d].st = "pending"
                THEN [st |-> "done",
                      status |-> IF d = "read" THEN "ERROR_BROKEN_PIPE"
                                 ELSE "ERROR_NO_DATA",
                      n |-> 0]
                ELSE io[d]]
    /\ UNCHANGED <<now, readDeadline, writeDeadline, inAvail, outFree, rw, cev,
                   wt, orphans, ioCalls>>
    /\ UNCHANGED <<connHandle, connAddr, connClose>>
    /\ UNCHANGED <<lvars, dvars>>

\* Close(): CloseHandle(c.handle), called once, from any goroutine and at
\* any time while a call is in progress or can still be made.  The handle
\* is released and a request still pending on it is ended, with the
\* cancelled or the broken-pipe status; c.handle keeps its value.
ClosedStatus == {"ERROR_OPERATION_ABORTED", "ERROR_BROKEN_PIPE"}
PipeConnClose ==
    /\ ConnRuns
    /\ connClose.st = "open"
    /\ \E status \in ClosedStatus :
         io' = [d \in Dirs |->
                  IF io[d].st = "pending"
                  THEN [st |-> "done", status |-> status, n |-> 0]
                  ELSE io[d]]
    /\ connClose' = [st |-> "closed", err |-> Nil]
    /\ UNCHANGED <<now, readDeadline, writeDeadline, inAvail, outFree,
                   peerClosed, rw, cev, wt, orphans, ioCalls>>
    /\ UNCHANGED <<connHandle, connAddr>>
    /\ UNCHANGED <<lvars, dvars>>

\* Time passes.
Tick ==
    /\ ConnRuns
    /\ now < MaxTime
    /\ now' = now + 1
    /\ UNCHANGED <<lvars, cvars, dvars>>

ConnNext ==
    \/ \E d \in Dirs : IO_Call(d)
    \/ \E d \in Dirs : W_Begin(d)
    \/ \E d \in Dirs : W_End(d)
    \/ O_Begin
    \/ O_End
    \/ \E d \in Dirs : IO_Done(d)
    \/ \E d \in Dirs : IO_Timer(d)
    \/ \E d \in Dirs : IO_Cancel(d)
    \/ \E t \in ZeroTime..MaxTime : SetReadDeadline(t)
    \/ \E t \in ZeroTime..MaxTime : SetWriteDeadline(t)
    \/ \E t \in ZeroTime..MaxTime : SetDeadline(t)
    \/ PipeConnClose
    \/ PeerWrite
    \/ PeerRead
    \/ PeerClose
    \/ Tick

\* ------------------------------------------------------ Dial, DialTimeout
\* The clock counts half milliseconds, so that two readings of it can lie
\* less than a millisecond apart: time.Millisecond is two of its units.
Millisecond == 2
\* The clock is followed this far while Dial or DialTimeout runs.
MaxDialTime == 4
Retry == 100 * Millisecond
\* 0xFFFFFFFF (NMPWAIT_WAIT_FOREVER), the timeout Dial passes: all bits
\* set.  Every other timeout here is far below 2^32 ms, so that the
\* conversion to uint32 keeps its value.
Forever == -1

BadPath == "mypipe"
WithNUL == "//./pipe/my<NUL>pipe"
Addresses == {addr, BadPath, WithNUL}
Timeouts == 0..MaxTime

IdleDialer == [pc |-> "idle", api |-> "", address |-> "", timeout |-> 0,
               deadline |-> 0, now |-> 0, millis |-> 0, until |-> 0,
               status |-> "", err |-> Nil, conn |-> FALSE]

\* No call to Dial yet, and no instance of the pipe yet.
NewDialer ==
    /\ dialer = IdleDialer
    /\ pipeSt = "none"

\* windows.UTF16PtrFromString: EINVAL for a string with a NUL in it.
UTF16PtrFromString(address) ==
    IF address = WithNUL THEN Errno("EINVAL") ELSE Nil

\* isPipeNotReady(err)
isPipeNotReady(err) ==
    err = Errno("ERROR_FILE_NOT_FOUND") \/ err = Errno("ERROR_PIPE_BUSY")

\* badAddr(addr)
badAddr(a) == PipeError("Invalid pipe address", FALSE)

\* waitNamedPipe's return for the last-error value the call left.
waitNamedPipe(errno) ==
    IF errno # "SUCCESS" THEN fmtErrorf(Errno(errno)) ELSE Nil

\* dial's return after waitNamedPipe gave err # nil.
dialWaitFailed(address, err) ==
    IF err = Errno("ERROR_BAD_PATHNAME") THEN badAddr(address) ELSE err

\* Dial(address) is called.
Dial(address) ==
    /\ dialer.pc = "idle"
    /\ dialer' = [IdleDialer EXCEPT !.pc = "loop", !.api = "Dial",
                                    !.address = address]
    /\ UNCHANGED <<now, pipeSt, lvars, cvars>>

\* DialTimeout(address, timeout) is called:
\* deadline := time.Now().Add(timeout).
DialTimeout(address, t) ==
    /\ dialer.pc = "idle"
    /\ dialer' = [IdleDialer EXCEPT !.pc = "now", !.api = "DialTimeout",
                                    !.address = address, !.timeout = t,
                                    !.deadline = now + t]
    /\ UNCHANGED <<now, pipeSt, lvars, cvars>>

\* now := time.Now(), the second reading of the clock, which may be later
\* than the one the deadline was computed from.
D_Now ==
    /\ dialer.pc = "now"
    /\ dialer' = [dialer EXCEPT !.pc = "loop", !.now = now]
    /\ UNCHANGED <<now, pipeSt, lvars, cvars>>

\* The head of the loop, entered at the call or after the backoff sleep
\* (which ends with now = time.Now() in DialTimeout).  Dial always makes
\* an attempt; DialTimeout makes one while now.Before(deadline) and
\* otherwise returns its timeout error.
D_Loop ==
    /\ \/ dialer.pc = "loop"
       \/ dialer.pc = "sleep" /\ now >= dialer.until
    /\ LET n == IF dialer.pc = "sleep" THEN now ELSE dialer.now
       IN IF dialer.api = "Dial"
          THEN dialer' = [dialer EXCEPT !.pc = "dial", !.millis = Forever]
          ELSE IF n < dialer.deadline
          THEN dialer' = [dialer EXCEPT !.pc = "dial", !.now = n,
                            !.millis = (dialer.deadline - n) \div Millisecond]
          ELSE dialer' = [dialer EXCEPT !.pc = "done", !.now = n,
                            !.err = PipeError("timed out waiting for pipe", TRUE)]
    /\ UNCHANGED <<now, pipeSt, lvars, cvars>>

\* The time-out interval of WaitNamedPipeW(name, millis): millis
\* milliseconds, and for 0 (NMPWAIT_USE_DEFAULT_WAIT) the default time-out
\* of the pipe, 50 ms for the instances AcceptPipe creates with
\* nDefaultTimeOut 0.
DefaultTimeOut == 50 * Millisecond
WaitInterval(millis) ==
    IF millis = 0 THEN DefaultTimeOut ELSE millis * Millisecond

\* dial(address, millis) up to the call of WaitNamedPipeW, which fails at
\* once for a malformed name or a name with no instance, succeeds at once
\* when an instance is listening, and otherwise waits.
D_Dial ==
    /\ dialer.pc = "dial"
    /\ IF UTF16PtrFromString(dialer.address) # Nil
       THEN dialer' = [dialer EXCEPT !.pc = "ret", !.status = "EINVAL",
                         !.err = fmtErrorf(UTF16PtrFromString(dialer.address))]
       ELSE IF dialer.address = BadPath
       THEN dialer' = [dialer EXCEPT !.pc = "ret",
                         !.status = "ERROR_BAD_PATHNAME",
                         !.err = dialWaitFailed(dialer.address,
                                    waitNamedPipe("ERROR_BAD_PATHNAME"))]
       ELSE IF pipeSt = "none"
       THEN dialer' = [dialer EXCEPT !.pc = "ret",
                         !.status = "ERROR_FILE_NOT_FOUND",
                         !.err = dialWaitFailed(dialer.address,
                                    waitNamedPipe("ERROR_FILE_NOT_FOUND"))]
       ELSE IF pipeSt = "avail"
       THEN dialer' = [dialer EXCEPT !.pc = "create"]
       ELSE dialer' = [dialer EXCEPT !.pc = "wait",
                                     !.until = now + WaitInterval(dialer.millis)]
    /\ UNCHANGED <<now, pipeSt, lvars, cvars>>

\* WaitNamedPipeW returns: an instance became available, or the time-out
\* interval elapsed (ERROR_SEM_TIMEOUT).
D_Wait ==
    /\ dialer.pc = "wait"
    /\ \/ /\ pipeSt = "avail"
          /\ dialer' = [dialer EXCEPT !.pc = "create"]
       \/ /\ dialer.millis # Forever
          /\ now >= dialer.until
          /\ dialer' = [dialer EXCEPT !.pc = "ret",
                          !.status = "ERROR_SEM_TIMEOUT",
                          !.err = dialWaitFailed(dialer.address,
                                     waitNamedPipe("ERROR_SEM_TIMEOUT"))]
    /\ UNCHANGED <<now, pipeSt, lvars, cvars>>

\* CreateFile on the name: it takes the listening instance, or finds that
\* another client took it first (ERROR_PIPE_BUSY).
D_Create ==
    /\ dialer.pc = "create"
    /\ IF pipeSt = "avail"
       THEN /\ dialer' = [dialer EXCEPT !.pc = "ret", !.status = "SUCCESS",
                                        !.err = Nil, !.conn = TRUE]
            /\ pipeSt' = "busy"
       ELSE /\ dialer' = [dialer EXCEPT !.pc = "ret",
                            !.status = "ERROR_PIPE_BUSY",
                            !.err = fmtErrorf(Errno("ERROR_PIPE_BUSY"))]
            /\ UNCHANGED pipeSt
    /\ UNCHANGED <<now, lvars, cvars>>

\* What Dial does with the result of dial.
DialResult(d) ==
    IF d.err = Nil THEN [d EXCEPT !.pc = "done"]
    ELSE IF isPipeNotReady(d.err)
    THEN [d EXCEPT !.pc = "sleep", !.until = now + Retry]
    ELSE [d EXCEPT !.pc = "done", !.err = fmtErrorf(d.err)]

\* What DialTimeout does with the result of dial.
DialTimeoutResult(d) ==
    IF d.err = Nil THEN [d EXCEPT !.pc = "done"]
    ELSE IF d.err = Errno("ERROR_SEM_TIMEOUT")
    THEN [d EXCEPT !.pc = "done",
                   !.err = PipeError("timed out waiting for pipe", TRUE)]
    ELSE IF isPipeNotReady(d.err)
    THEN LET left == d.deadline - now
         IN [d EXCEPT !.pc = "sleep",
                      !.until = now + (IF left > Retry THEN Retry
                                       ELSE left - Millisecond)]
    ELSE [d EXCEPT !.pc = "done"]

\* dial has returned to the loop of Dial or DialTimeout.
D_Return ==
    /\ dialer.pc = "ret"
    /\ dialer' = IF dialer.api = "Dial" THEN DialResult(dialer)
                 ELSE DialTimeoutResult(dialer)
    /\ UNCHANGED <<now, pipeSt, lvars, cvars>>

\* The server: it creates the first instance of the pipe, or goes back to
\* listening after a client was served.
ServerListen ==
    /\ dialer.pc \notin {"idle", "done"}
    /\ pipeSt \in {"none", "busy"}
    /\ pipeSt' = "avail"
    /\ UNCHANGED <<now, dialer, lvars, cvars>>

\* Another client takes the listening instance.
OtherClient ==
    /\ dialer.pc \notin {"idle", "done"}
    /\ pipeSt = "avail"
    /\ pipeSt' = "busy"
    /\ UNCHANGED <<now, dialer, lvars, cvars>>

\* Time passes while Dial or DialTimeout runs.
DialTick ==
    /\ dialer.pc \notin {"idle", "done"}
    /\ now < MaxDialTime
    /\ now' = now + 1
    /\ UNCHANGED <<lvars, cvars, dvars>>

DialNext ==
    \/ \E a \in Addresses : Dial(a)
    \/ \E a \in Addresses, t \in Timeouts : DialTimeout(a, t)
    \/ D_Now
    \/ D_Loop
    \/ D_Dial
    \/ D_Wait
    \/ D_Create
    \/ D_Return
    \/ ServerListen
    \/ OtherClient
    \/ DialTick

Init == NewPipeListener /\ NewPipeConn /\ NewDialer
Next == ListenerNext
vars == <<now, lvars, cvars, dvars>>
Spec == Init /\ [][Next]_vars
ConnSpec == Init /\ [][ConnNext]_vars
DialSpec == Init /\ [][DialNext]_vars

\* The listener with a thread that calls Handle() besides.
HandleNext == ListenerNext \/ Handle
HandleSpec == Init /\ [][HandleNext]_vars

\* The connection with the scheduling Go gives its goroutines: the waiter
\* that completeRequest starts keeps running, and so does a call that can
\* take an outcome from done or has seen its timer fire.  Nothing obliges the
\* caller to make a call, the peer to act, or time to pass.
ConnLiveSpec ==
    /\ Init
    /\ [][ConnNext]_vars
    /\ \A d \in Dirs : WF_vars(W_Begin(d))
    /\ \A d \in Dirs : WF_vars(W_End(d))
    /\ \A d \in Dirs : WF_vars(IO_Done(d))
    /\ \A d \in Dirs : WF_vars(IO_Cancel(d))
    /\ WF_vars(O_Begin)
    /\ WF_vars(O_End)

\* A run of the package that works the listener, or else a connection.
PackageNext ==
    \/ NewPipeConn /\ ListenerNext
    \/ NewPipeListener /\ ConnNext
PackageSpec == Init /\ [][PackageNext]_vars

\* A connection used by a reading and a writing goroutine at once.
DuplexInit == NewPipeListener /\ UsedPipeConn /\ NewDialer
\* The deadlines are set before the two goroutines start, and the peer and
\* the clock are followed until both calls have returned.
DuplexRuns ==
    \/ \E d \in Dirs : rw[d].pc \in {"idle", "select", "cancel"}
    \/ \E d \in Dirs : wt[d].pc \in {"start", "waiting"}
DuplexNext ==
    \/ \E d \in Dirs : IO_CallDuplex(d)
    \/ \E d \in Dirs : W_Begin(d)
    \/ \E d \in Dirs : W_End(d)
    \/ \E d \in Dirs : IO_Done(d)
    \/ \E d \in Dirs : IO_Timer(d)
    \/ \E d \in Dirs : IO_Cancel(d)
    \/ \E t \in ZeroTime..MaxTime : ioCalls = 0 /\ SetReadDeadline(t)
    \/ \E t \in ZeroTime..MaxTime : ioCalls = 0 /\ SetWriteDeadline(t)
    \/ \E t \in ZeroTime..MaxTime : ioCalls = 0 /\ SetDeadline(t)
    \/ DuplexRuns /\ PipeConnClose
    \/ DuplexRuns /\ PeerWrite
    \/ DuplexRuns /\ PeerRead
    \/ DuplexRuns /\ PeerClose
    \/ DuplexRuns /\ Tick
DuplexSpec == DuplexInit /\ [][DuplexNext]_vars


\* The listener with one thread calling Accept/AcceptPipe, a thread calling
\* Close, and the scheduling Go and the kernel give them: a thread inside a
\* call keeps running, a thread waiting for the mutex gets it in the end
\* however often it is taken and released meanwhile (sync.Mutex hands a
\* starved waiter the lock), and a decided completion is delivered.  Nothing
\* obliges a thread to make a call or a client to connect.
OneAcceptor == 1
AcceptRun(a) ==
    \/ AP_Lock(a)
    \/ AP_Take(a)
    \/ AP_Connect(a)
    \/ AP_WaitBegin(a)
    \/ AP_WaitEnd(a)
    \/ AP_Relock(a)
    \/ AP_Return(a)
CloseRun ==
    \/ Close_Lock
    \/ Close_Handle
    \/ Close_Cancel
    \/ Close_Event
    \/ Close_AcceptHandle
LiveNext ==
    \/ AcceptStep(OneAcceptor)
    \/ CloseStep
    \/ \E h \in Handles : ClientConnect(h)
    \/ \E h \in Handles : ClientDisconnect(h)
    \/ Deliver(OneAcceptor)
LiveSpec ==
    /\ Init
    /\ [][LiveNext]_vars
    /\ SF_vars(AcceptRun(OneAcceptor))
    /\ SF_vars(CloseRun)
    /\ WF_vars(Deliver(OneAcceptor))

\* The listener with both threads calling Accept/AcceptPipe and the thread
\* calling Close, under the same scheduling as LiveSpec.
LiveSpec2 ==
    /\ Init
    /\ [][ListenerNext]_vars
    /\ \A a \in Acceptors : SF_vars(AcceptRun(a))
    /\ SF_vars(CloseRun)
    /\ \A a \in Acceptors : WF_vars(Deliver(a))

\* ----------------------------------------------------------------- claims
Blocked(a) == acc[a].pc \in {"prewait", "waiting"}
Returned(a) == acc[a].pc \in {"ret", "done"}

\* C1: an AcceptPipe call whose pending connect was cancelled by Close
\* (the connect's status is ERROR_OPERATION_ABORTED) returns ErrClosed and
\* no other error.
C1_CancelledAcceptReturnsErrClosed ==
    \A a \in Acceptors :
        (Returned(a) /\ op[a].status = "ERROR_OPERATION_ABORTED")
            => acc[a].err = ErrClosed

\* C2: a call blocked in its accept wait does not hold the mutex; a Close
\* called while the call is blocked returns; and the blocked call returns.
C2_CloseWhileAccepting ==
    /\ [](Blocked(OneAcceptor) => mu # OneAcceptor)
    /\ (cl.pc = "lock" /\ Blocked(OneAcceptor)) ~> (cl.pc = "done")
    /\ (cl.pc = "lock" /\ Blocked(OneAcceptor)) ~> (acc[OneAcceptor].pc = "ret")
C2_Witness ==
    /\ cl.pc = "done"
    /\ acc[OneAcceptor].pc = "ret"
    /\ op[OneAcceptor].status = "ERROR_OPERATION_ABORTED"
    /\ acc[OneAcceptor].err # Nil

\* C7: Accept never hands ERROR_NO_DATA to its caller; it returns a
\* connection, or an error that is not ERROR_NO_DATA.
C7_AcceptAbsorbsNoData ==
    \A a \in Acceptors :
        (acc[a].pc = "done" /\ acc[a].api = "Accept")
            => /\ acc[a].err # Errno("ERROR_NO_DATA")
               /\ (acc[a].err = Nil) = (acc[a].conn # NoHandle)
C7_Witness ==
    \E a \in Acceptors :
        /\ acc[a].pc = "done"
        /\ acc[a].api = "Accept"
        /\ acc[a].noData
        /\ acc[a].conn # NoHandle

\* C8: no handle wrapped by a connection AcceptPipe returned was cancelled
\* or released by the listener's Close.
C8_CloseLeavesAcceptedAlone ==
    returned \cap (releasedByClose \cup cancelledByClose) = {}

\* C10: a Close call that finds the closed flag set returns nil, changes no
\* listener field, and cancels or releases nothing.
C10_CloseIdempotent ==
    [][(cl.pc = "lock" /\ closed /\ cl'.pc # "lock")
         => /\ cl'.pc = "done"
            /\ cl'.err = Nil
            /\ UNCHANGED <<mu, closed, handle, acceptHandle, acceptOverlapped,
                           pipes, ev, op, releasedByClose, cancelledByClose>>]_vars
C10_Witness ==
    /\ cl.pc = "done"
    /\ cl.calls >= 2
    /\ closed
    /\ acceptOverlapped # 0

\* C11: an AcceptPipe call that takes the mutex once the closed flag is set
\* returns an error; it does not take the pre-created handle, creates no
\* instance and issues no connect.
C11_ClosedListenerRefusesAccept ==
    [][\A a \in Acceptors :
         (acc[a].pc = "lock" /\ closed /\ acc'[a].pc # "lock")
            => /\ acc'[a].pc = "ret"
               /\ acc'[a].err # Nil
               /\ acc'[a].conn = NoHandle
               /\ acc'[a].handle = NoHandle
               /\ UNCHANGED <<handle, pipes, op, acceptHandle,
                              acceptOverlapped>>]_vars
C11_Witness ==
    \E a \in Acceptors :
        /\ closed
        /\ cl.pc = "done"
        /\ acc[a].pc = "ret"
        /\ acc[a].handle = NoHandle
        /\ acc[a].err = fmtError("the address is empty or the listener is closed")
        /\ handle # NoHandle

\* C15: a call gets the pre-created instance only by taking it out of
\* l.handle, which is never filled again; a call that finds l.handle empty
\* gets an instance created for it; and no two calls hold the same handle.
C15_OneCallPerInstance ==
    [][/\ \A a \in Acceptors :
            (acc[a].handle = NoHandle /\ acc'[a].handle # NoHandle)
               => IF handle # NoHandle
                  THEN acc'[a].handle = handle /\ handle' = NoHandle
                  ELSE pipes[acc'[a].handle].st = "none"
       /\ handle = NoHandle => handle' = NoHandle
       /\ \A a, b \in Acceptors :
            (a # b /\ acc'[a].handle # NoHandle)
               => acc'[a].handle # acc'[b].handle]_vars
C15_Witness ==
    /\ acc[1].handle = 1
    /\ acc[2].handle = 2
    /\ handle = NoHandle
    /\ \A a \in Acceptors : acc[a].pc \in {"prewait", "waiting"}

\* C17: a thread that reads or writes l.closed, l.handle, l.acceptHandle or
\* l.acceptOverlapped holds l.mu while it does: an AcceptPipe caller between
\* its closed check and its connect, the Close caller from setting the flag
\* to its return, and the Handle caller at its read of l.handle.
C17_FieldsUnderMutex ==
    /\ \A a \in Acceptors : acc[a].pc \in {"take", "connect"} => mu = a
    /\ cl.pc \in {"handle", "cancel", "closeEvent", "closeHandle"}
          => mu = Closer
    /\ handleResult.pc = "done" => handleResult.mu = Reader

\* C18: when every AcceptPipe call is blocked in its accept wait and Close
\* is called, each of the blocked calls returns in the end.
C18_CloseCancelsEveryAccept ==
    \A a \in Acceptors :
        ((\A b \in Acceptors : Blocked(b)) /\ cl.pc = "lock" /\ ~closed)
            ~> Returned(a)

\* C20: when AcceptPipe has returned, the instance handle it took or
\* created is wrapped by the connection it returned, or has been released.
C20_NoInstanceLeaked ==
    \A a \in Acceptors :
        (Returned(a) /\ acc[a].handle # NoHandle)
            => \/ acc[a].conn = acc[a].handle
               \/ pipes[acc[a].handle].st = "closed"

\* ------------------------------------------------- properties of PipeConn
\* The call in direction d was pending at issue time and has returned.
WasPending(d) == rw[d].pc = "done" /\ rw[d].via \in {"done", "timer"}

\* C3: a Read on an open connection that is pending at issue time while the
\* stored read deadline is already in the past returns an error whose
\* Timeout() is true.
C3_PastDeadlineReadTimesOut ==
    (/\ WasPending("read")
     /\ connClose.st = "open"
     /\ rw["read"].dl \notin {NoDeadline, ZeroTime}
     /\ rw["read"].dl < rw["read"].callTime)
        => rw["read"].err.timeout

\* C6: a Read whose operation ends with the broken-pipe status because the
\* peer closed its handle, at issue time or as the completion status of the
\* pending operation, returns io.EOF.
C6_BrokenPipeReadReturnsEOF ==
    (/\ rw["read"].pc = "done"
     /\ peerClosed
     /\ connClose.st = "open"
     /\ rw["read"].via \in {"issue", "done"}
     /\ rw["read"].status = "ERROR_BROKEN_PIPE")
        => rw["read"].err = EOF

\* C9: a Read or Write whose deadline was never set, or was set to the zero
\* time, never takes the timer branch and never returns a timeout error,
\* however long it stays pending.
C9_NoDeadlineNeverTimesOut ==
    \A d \in Dirs :
        rw[d].dl \in {NoDeadline, ZeroTime} =>
            /\ rw[d].pc # "cancel"
            /\ rw[d].via # "timer"
            /\ ~rw[d].err.timeout

C9_Witness ==
    /\ WasPending("read")
    /\ rw["read"].dl = ZeroTime
    /\ readDeadline = ZeroTime
    /\ now > rw["read"].callTime
    /\ rw["read"].err = Nil
    /\ rw["read"].n > 0

\* C13: a step that stores a read deadline the way SetReadDeadline does
\* leaves the write deadline as it was, a step that stores a write deadline
\* the way SetWriteDeadline does leaves the read deadline as it was, a
\* SetDeadline step stores the same time in both, and none of them changes
\* the connection's handle or address.
C13_DeadlinesIndependent ==
    [][/\ SetReadDeadline(readDeadline') =>
            UNCHANGED <<writeDeadline, connHandle, connAddr>>
       /\ SetWriteDeadline(writeDeadline') =>
            UNCHANGED <<readDeadline, connHandle, connAddr>>
       /\ SetDeadline(readDeadline') =>
            /\ writeDeadline' = readDeadline'
            /\ UNCHANGED <<connHandle, connAddr>>]_vars
C13_Witness ==
    /\ readDeadline = 1
    /\ writeDeadline = MaxTime
    /\ readDeadline # writeDeadline
    /\ connHandle = 1
    /\ connAddr = addr

\* C14: the step in which a call that timed out cancels its operation
\* leaves the other direction's operation, event, goroutine and call as
\* they are; and, short of a Close of the connection, an operation is
\* aborted only in the cancel step of the call that issued it.
C14_TimeoutCancelsOwnOperationOnly ==
    [][\A d \in Dirs :
         /\ (rw[d].pc = "cancel" /\ rw'[d].pc = "done")
              => /\ io'[Other(d)] = io[Other(d)]
                 /\ cev'[Other(d)] = cev[Other(d)]
                 /\ wt'[Other(d)] = wt[Other(d)]
                 /\ rw'[Other(d)] = rw[Other(d)]
         /\ (/\ io'[d].status = "ERROR_OPERATION_ABORTED"
             /\ io[d].status # "ERROR_OPERATION_ABORTED"
             /\ connClose' = connClose)
              => rw[d].pc = "cancel"]_vars
\* A read has timed out and returned while a write is in flight: the
\* write's operation is still pending and its goroutine still waits.
C14_Witness ==
    /\ rw["read"].pc = "done"
    /\ rw["read"].via = "timer"
    /\ io["read"].status = "ERROR_OPERATION_ABORTED"
    /\ rw["write"].pc = "select"
    /\ rw["write"].callTime <= rw["read"].callTime
    /\ io["write"].st = "pending"
    /\ wt["write"].pc = "waiting"

\* C21: the goroutine that completeRequest started for a call whose timer
\* fired first terminates in the end.
C21_WaiterTerminates ==
    \A d \in Dirs : (rw[d].pc = "cancel") ~> (wt[d].pc = "exited")

\* C22: a Read that returned a timeout error took no byte out of the pipe:
\* its operation did not complete with bytes transferred.
C22_TimedOutReadConsumesNothing ==
    (rw["read"].pc = "done" /\ rw["read"].err.timeout)
        => ~(/\ io["read"].st = "done"
             /\ io["read"].status = "SUCCESS"
             /\ io["read"].n > 0)

\* ------------------------------------------------ properties of the events
\* C16: when AcceptPipe, Read or Write has returned, the event created for
\* the call, if one was created, has been released, whichever way the call
\* ended.
C16_EventReleasedOnReturn ==
    /\ \A a \in Acceptors :
         (Returned(a) /\ ev[a].st # "none") => ev[a].st = "closed"
    /\ \A d \in Dirs :
         (rw[d].pc = "done" /\ cev[d].st # "none") => cev[d].st = "closed"
C16_Witness ==
    /\ rw["read"].pc = "done"
    /\ rw["read"].via = "timer"
    /\ rw["read"].err.timeout
    /\ cev["read"].st = "closed"
    /\ wt["read"].pc = "waiting"

\* C19: CloseHandle is performed at most once on an event, whether it was
\* created by AcceptPipe, by Read or by Write.
C19_EventReleasedOnce ==
    /\ \A a \in Acceptors : ev[a].releases <= 1
    /\ \A d \in Dirs : cev[d].releases <= 1

\* C23: no thread is inside waitForCompletion on an event that has been
\* released: neither the goroutine completeRequest started for a Read or
\* Write, nor an AcceptPipe whose event Close released.
C23_NoWaitOnReleasedEvent ==
    /\ \A d \in Dirs : wt[d].pc = "waiting" => cev[d].st # "closed"
    /\ \A a \in Acceptors : acc[a].pc = "waiting" => ev[a].st # "closed"

\* ----------------------------------------- properties of Dial, DialTimeout
\* The name was well formed and no instance of the pipe was ever created.
NeverCreated == dialer.address = addr /\ pipeSt = "none"

\* C4: DialTimeout on a name for which no instance is ever created returns
\* an error whose Timeout() is true, and not before entry time + timeout.
C4_DialTimeoutTimesOut ==
    (dialer.pc = "done" /\ dialer.api = "DialTimeout" /\ NeverCreated)
        => /\ dialer.err.timeout
           /\ now >= dialer.deadline

\* C5: Dial never returns the failure of an attempt that ended with
\* pipe-not-yet-created or all-instances-busy; it returns a connection or
\* another failure.
C5_DialRetriesNotReady ==
    (dialer.pc = "done" /\ dialer.api = "Dial")
        => \/ dialer.conn /\ dialer.err = Nil
           \/ /\ dialer.err # Nil
              /\ dialer.status \notin {"ERROR_FILE_NOT_FOUND", "ERROR_PIPE_BUSY"}

\* C12: Dial, and DialTimeout with time left when it read the clock, given
\* a badly formatted pipe name return the bad-address PipeError, whose
\* Timeout() is false, after their one attempt.
C12_BadNameGivesBadAddr ==
    (/\ dialer.pc = "done"
     /\ dialer.address = BadPath
     /\ dialer.api = "Dial" \/ dialer.now < dialer.deadline)
        => /\ dialer.err = badAddr(dialer.address)
           /\ ~dialer.err.timeout
           /\ dialer.status = "ERROR_BAD_PATHNAME"

====
